---- MODULE Spec2Model ----
(***************************************************************************)
(* Spy Performance API: the HTTP handlers of app/main.py over the tables   *)
(* of app/models.py.  Every table is a sequence of rows in insertion       *)
(* order; a row's id is its position (no handler deletes, so the           *)
(* autoincrement primary key is the row count plus one).                   *)
(*                                                                         *)
(* Floats are modelled by integers.  The values returned by the daily      *)
(* summary are kept multiplied by Scale (hundredths), so that the          *)
(* division by 100.0 of the macro query is exact.  Free-text and           *)
(* pass-through payload columns (notes, source, meal_type, heart rates,    *)
(* the 1..10 ratings, the protein/carbs/fat targets, ...) are copied       *)
(* verbatim by the handlers and read by none of them; they are left out.   *)
(***************************************************************************)
EXTENDS Integers, Sequences, FiniteSets, TLC

VARIABLES
    users,              \* models.User rows
    user_settings,      \* models.UserSettings rows
    weight_log,         \* models.WeightLog rows
    food_items,         \* models.FoodItem rows (reference data, no handler writes it)
    meals,              \* models.Meal rows
    meal_items,         \* models.MealItem rows
    training_sessions,  \* models.TrainingSession rows
    sleep_logs,         \* models.SleepLog rows
    ans_logs,           \* models.ANSLog rows
    daily_feel,         \* models.DailyFeel rows
    daily_targets,      \* models.DailyTargets rows
    daily_log,          \* models.DailyLog rows
    fk_enforced,        \* whether the engine enforces the ForeignKey constraints
    resp,               \* the last request and its HTTP response
    nreq,               \* number of requests served so far
    inflight            \* per worker thread: the request it is serving, if any

tables == <<users, user_settings, weight_log, food_items, meals, meal_items,
            training_sessions, sleep_logs, ans_logs, daily_feel, daily_targets,
            daily_log>>

vars == <<users, user_settings, weight_log, food_items, meals, meal_items,
          training_sessions, sleep_logs, ans_logs, daily_feel, daily_targets,
          daily_log, fk_enforced, resp, nreq, inflight>>

----------------------------------------------------------------------------
(* Bounds and input domains *)

MaxRequests == 2

\* Worker threads that serve requests at the same time.
Slots == {1, 2}

UserIds == {1, 2}
Dates == {1, 2}
Names == {"spy"}
Weights == {70, 71}

\* Optional[...] payload fields and nullable columns: NULL or Some(v).
NULL == <<>>
Some(x) == <<x>>
Val(x) == x[1]

\* Python's `x or 0` on an Optional[float].
OrZero(x) == IF x = NULL THEN 0 ELSE IF Val(x) = 0 THEN 0 ELSE Val(x)

DateTimeInputs == {NULL} \cup {Some(d) : d \in Dates}
CaloriesInputs == {NULL, Some(300)}
ReadinessState == {"HIGH", "MODERATE", "LOW", "RECOVERY"}
ReadinessInputs == {NULL, Some("HIGH")}
TargetInputs == {NULL, Some(2000)}

\* Defaults written by create_user.
HrvBaselineDefault == 41
ProteinTargetMinDefault == 160
ProteinTargetMaxDefault == 190

\* The divisor of the macro query (per-100g reference values).
Scale == 100

\* Integer primary key of the next inserted row.
NextId(table) == Len(table) + 1

----------------------------------------------------------------------------
(* Reference data and the initial database *)

\* food_items has no route that writes it: it is reference data loaded into
\* the database file.  Ids 1 and 2 exist, id 3 does not.
SeedFoods ==
    << [id |-> 1, protein_g |-> 20, carbs_g |-> 1, fat_g |-> 3, kcal |-> 110],
       [id |-> 2, protein_g |-> 2, carbs_g |-> 28, fat_g |-> 0, kcal |-> 130] >>

NoResponse == [op |-> "none", status |-> 0, user_id |-> 0, date |-> 0, body |-> NULL]

\* A worker thread between requests.
Idle == [pc |-> "idle", op |-> "none", user_id |-> 0, date |-> 0, arg |-> NULL,
         found |-> NULL, value |-> NULL]

Init ==
    /\ users = <<>>
    /\ user_settings = <<>>
    /\ weight_log = <<>>
    /\ food_items = SeedFoods
    /\ meals = <<>>
    /\ meal_items = <<>>
    /\ training_sessions = <<>>
    /\ sleep_logs = <<>>
    /\ ans_logs = <<>>
    /\ daily_feel = <<>>
    /\ daily_targets = <<>>
    /\ daily_log = <<>>
    /\ fk_enforced \in BOOLEAN
    /\ resp = NoResponse
    /\ nreq = 0
    /\ inflight = [s \in Slots |-> Idle]

----------------------------------------------------------------------------
(* Queries *)

UserExists(user_id) == \E i \in DOMAIN users : users[i].id = user_id

FoodExists(food_id) == \E i \in DOMAIN food_items : food_items[i].id = food_id

\* A row whose user_id references no users row violates ForeignKey("users.id");
\* the engine rejects it only when it enforces foreign keys.
FkViolation(user_id) == fk_enforced /\ ~UserExists(user_id)

\* Rows matched by filter(user_id == u, date == d) on a day-scoped table.
DayRows(table, user_id, d) ==
    {i \in DOMAIN table : table[i].user_id = user_id /\ table[i].date = d}

Response(op, status, user_id, d, body) ==
    [op |-> op, status |-> status, user_id |-> user_id, date |-> d, body |-> body]

\* An unhandled IntegrityError: the session is closed without a commit.
ServerError(op, user_id, d) ==
    /\ resp' = Response(op, 500, user_id, d, NULL)
    /\ UNCHANGED tables

----------------------------------------------------------------------------
(* POST /users *)

\* Mutant of DefaultSettings: the protein target bounds swapped.
DefaultSettingsSwapped(id, user_id) ==
    [id |-> id,
     user_id |-> user_id,
     hrv_baseline |-> Some(HrvBaselineDefault),
     weight_goal_kg |-> NULL,
     protein_target_min_g |-> Some(ProteinTargetMaxDefault),
     protein_target_max_g |-> Some(ProteinTargetMinDefault),
     default_maintenance_kcal |-> NULL]

\* models.UserSettings(user_id=..., hrv_baseline=41.0, protein_target_min_g=160,
\* protein_target_max_g=190): the columns not named stay NULL.
DefaultSettings(id, user_id) ==
    [id |-> id,
     user_id |-> user_id,
     hrv_baseline |-> Some(HrvBaselineDefault),
     weight_goal_kg |-> NULL,
     protein_target_min_g |-> Some(ProteinTargetMinDefault),
     protein_target_max_g |-> Some(ProteinTargetMaxDefault),
     default_maintenance_kcal |-> NULL]

create_user(name) ==
    /\ nreq < MaxRequests
    /\ nreq' = nreq + 1
    /\ LET db_user == [id |-> NextId(users), name |-> name] IN
        /\ users' = Append(users, db_user)
        /\ user_settings' = Append(user_settings,
                                DefaultSettings(NextId(user_settings), db_user.id))
        /\ resp' = Response("create_user", 200, db_user.id, 0, Some(db_user.id))
    /\ UNCHANGED <<weight_log, food_items, meals, meal_items, training_sessions,
                   sleep_logs, ans_logs, daily_feel, daily_targets, daily_log,
                   fk_enforced, inflight>>

(* GET /users/{user_id} *)
get_user(user_id) ==
    /\ nreq < MaxRequests
    /\ nreq' = nreq + 1
    /\ resp' = IF UserExists(user_id)
               THEN Response("get_user", 200, user_id, 0, Some(user_id))
               ELSE Response("get_user", 404, user_id, 0, NULL)
    /\ UNCHANGED <<tables, fk_enforced, inflight>>

----------------------------------------------------------------------------
(* POST /weight *)

\* d = payload.date_time.date() if payload.date_time else date.today()
WeightDate(date_time, today) == IF date_time = NULL THEN today ELSE Val(date_time)

\* Mutant of WeightUpsert: the lookup is skipped, a header row is always inserted.
WeightUpsertAlwaysInsert(user_id, d, weight_kg) ==
    {Append(daily_log,
        [id |-> NextId(daily_log), user_id |-> user_id, date |-> d,
         body_weight_kg |-> Some(weight_kg),
         calories_in_kcal |-> NULL,
         calories_out_training_kcal |-> NULL,
         calculated_deficit_kcal |-> NULL,
         readiness_state |-> NULL])}

\* Mutant of WeightUpsert: an existing header row is left as it is.
WeightUpsertKeepFirst(user_id, d, weight_kg) ==
    LET found == DayRows(daily_log, user_id, d) IN
    IF found = {}
    THEN {Append(daily_log,
             [id |-> NextId(daily_log), user_id |-> user_id, date |-> d,
              body_weight_kg |-> Some(weight_kg),
              calories_in_kcal |-> NULL,
              calories_out_training_kcal |-> NULL,
              calculated_deficit_kcal |-> NULL,
              readiness_state |-> NULL])}
    ELSE {daily_log}

\* Mutant of WeightUpsert: an existing header row is rebuilt from the payload.
WeightUpsertResetRow(user_id, d, weight_kg) ==
    LET found == DayRows(daily_log, user_id, d) IN
    IF found = {}
    THEN {Append(daily_log,
             [id |-> NextId(daily_log), user_id |-> user_id, date |-> d,
              body_weight_kg |-> Some(weight_kg),
              calories_in_kcal |-> NULL,
              calories_out_training_kcal |-> NULL,
              calculated_deficit_kcal |-> NULL,
              readiness_state |-> NULL])}
    ELSE {[daily_log EXCEPT ![i] =
              [id |-> daily_log[i].id, user_id |-> user_id, date |-> d,
               body_weight_kg |-> Some(weight_kg),
               calories_in_kcal |-> NULL,
               calories_out_training_kcal |-> NULL,
               calculated_deficit_kcal |-> NULL,
               readiness_state |-> NULL]] : i \in found}

\* The DailyLog header after the lookup-then-insert-or-update of log_weight:
\* the tables the commit may leave, one per row .first() may have returned.
WeightUpsert(user_id, d, weight_kg) ==
    LET found == DayRows(daily_log, user_id, d) IN
    IF found = {}
    THEN {Append(daily_log,
             [id |-> NextId(daily_log), user_id |-> user_id, date |-> d,
              body_weight_kg |-> Some(weight_kg),
              calories_in_kcal |-> NULL,
              calories_out_training_kcal |-> NULL,
              calculated_deficit_kcal |-> NULL,
              readiness_state |-> NULL])}
    ELSE {[daily_log EXCEPT ![i].body_weight_kg = Some(weight_kg)] : i \in found}

log_weight(user_id, weight_kg, date_time, today) ==
    /\ nreq < MaxRequests
    /\ nreq' = nreq + 1
    /\ UNCHANGED <<fk_enforced, inflight>>
    /\ LET d == WeightDate(date_time, today)
           db_weight == [id |-> NextId(weight_log), user_id |-> user_id,
                         weight_kg |-> weight_kg, date |-> d]
       IN
        IF FkViolation(user_id)
        THEN ServerError("log_weight", user_id, d)
        ELSE
            /\ weight_log' = Append(weight_log, db_weight)
            /\ daily_log' \in WeightUpsert(user_id, d, weight_kg)
            /\ resp' = Response("log_weight", 200, user_id, d, NULL)
            /\ UNCHANGED <<users, user_settings, food_items, meals, meal_items,
                           training_sessions, sleep_logs, ans_logs, daily_feel,
                           daily_targets>>

----------------------------------------------------------------------------
(* POST /meals *)

MealItemLists ==
    { <<>>,
      << [food_id |-> 1, quantity_g |-> 50] >>,
      << [food_id |-> 1, quantity_g |-> 50], [food_id |-> 2, quantity_g |-> 150] >>,
      << [food_id |-> 3, quantity_g |-> 50] >>,
      << [food_id |-> 3, quantity_g |-> 50], [food_id |-> 2, quantity_g |-> 150] >>,
      << [food_id |-> 1, quantity_g |-> 50], [food_id |-> 3, quantity_g |-> 50] >> }

\* The `for item in payload.items` loop from item k on: the MealItem rows
\* added to the session so far, and whether the loop raised HTTPException(400).
RECURSIVE MealItemLoop(_, _, _, _)
MealItemLoop(items, k, meal_id, pending) ==
    IF k > Len(items)
    THEN [raised |-> FALSE, pending |-> pending]
    ELSE IF ~FoodExists(items[k].food_id)
         THEN [raised |-> TRUE, pending |-> pending]
         ELSE MealItemLoop(items, k + 1, meal_id,
                  Append(pending,
                         [id |-> NextId(meal_items) + Len(pending),
                          meal_id |-> meal_id,
                          food_id |-> items[k].food_id,
                          quantity_g |-> items[k].quantity_g]))

\* Mutant of log_meal: the MealItem rows added before the unknown food are committed.
log_meal_keep_pending(user_id, d, items) ==
    /\ nreq < MaxRequests
    /\ nreq' = nreq + 1
    /\ UNCHANGED <<fk_enforced, inflight>>
    /\ IF FkViolation(user_id)
       THEN ServerError("log_meal", user_id, d)
       ELSE LET meal == [id |-> NextId(meals), user_id |-> user_id, date |-> d]
                loop == MealItemLoop(items, 1, meal.id, <<>>)
            IN
            /\ meals' = Append(meals, meal)
            /\ meal_items' = meal_items \o loop.pending
            /\ resp' = IF loop.raised
                       THEN Response("log_meal", 400, user_id, d, NULL)
                       ELSE Response("log_meal", 200, user_id, d, Some(meal.id))
            /\ UNCHANGED <<users, user_settings, weight_log, food_items,
                           training_sessions, sleep_logs, ans_logs, daily_feel,
                           daily_targets, daily_log>>

log_meal(user_id, d, items) ==
    /\ nreq < MaxRequests
    /\ nreq' = nreq + 1
    /\ UNCHANGED <<fk_enforced, inflight>>
    /\ IF FkViolation(user_id)
       THEN ServerError("log_meal", user_id, d)
       ELSE LET meal == [id |-> NextId(meals), user_id |-> user_id, date |-> d]
                loop == MealItemLoop(items, 1, meal.id, <<>>)
            IN
            \* first commit: the Meal row is durable from here on
            /\ meals' = Append(meals, meal)
            /\ IF loop.raised
               THEN \* HTTPException(400): the pending MealItem rows are never committed
                    /\ meal_items' = meal_items
                    /\ resp' = Response("log_meal", 400, user_id, d, NULL)
               ELSE \* second commit
                    /\ meal_items' = meal_items \o loop.pending
                    /\ resp' = Response("log_meal", 200, user_id, d, Some(meal.id))
            /\ UNCHANGED <<users, user_settings, weight_log, food_items,
                           training_sessions, sleep_logs, ans_logs, daily_feel,
                           daily_targets, daily_log>>

----------------------------------------------------------------------------
(* POST /training *)

\* Mutant of TrainingUpsert: the lookup filters on the user only.
TrainingUpsertAnyDay(user_id, d, calories_kcal) ==
    LET found == {i \in DOMAIN daily_log : daily_log[i].user_id = user_id} IN
    IF found = {}
    THEN {Append(daily_log,
             [id |-> NextId(daily_log), user_id |-> user_id, date |-> d,
              body_weight_kg |-> NULL,
              calories_in_kcal |-> NULL,
              calories_out_training_kcal |-> Some(OrZero(calories_kcal)),
              calculated_deficit_kcal |-> NULL,
              readiness_state |-> NULL])}
    ELSE {[daily_log EXCEPT ![i].calories_out_training_kcal =
              Some(OrZero(daily_log[i].calories_out_training_kcal)
                   + OrZero(calories_kcal))] : i \in found}

\* Mutant of TrainingUpsert: the counter of an existing row is replaced, not added to.
TrainingUpsertOverwrite(user_id, d, calories_kcal) ==
    LET found == DayRows(daily_log, user_id, d) IN
    IF found = {}
    THEN {Append(daily_log,
             [id |-> NextId(daily_log), user_id |-> user_id, date |-> d,
              body_weight_kg |-> NULL,
              calories_in_kcal |-> NULL,
              calories_out_training_kcal |-> Some(OrZero(calories_kcal)),
              calculated_deficit_kcal |-> NULL,
              readiness_state |-> NULL])}
    ELSE {[daily_log EXCEPT ![i].calories_out_training_kcal =
              Some(OrZero(calories_kcal))] : i \in found}

\* The DailyLog header after the lookup-then-insert-or-accumulate of log_training.
TrainingUpsert(user_id, d, calories_kcal) ==
    LET found == DayRows(daily_log, user_id, d) IN
    IF found = {}
    THEN {Append(daily_log,
             [id |-> NextId(daily_log), user_id |-> user_id, date |-> d,
              body_weight_kg |-> NULL,
              calories_in_kcal |-> NULL,
              calories_out_training_kcal |-> Some(OrZero(calories_kcal)),
              calculated_deficit_kcal |-> NULL,
              readiness_state |-> NULL])}
    ELSE {[daily_log EXCEPT ![i].calories_out_training_kcal =
              Some(OrZero(daily_log[i].calories_out_training_kcal)
                   + OrZero(calories_kcal))] : i \in found}

log_training(user_id, d, calories_kcal) ==
    /\ nreq < MaxRequests
    /\ nreq' = nreq + 1
    /\ UNCHANGED <<fk_enforced, inflight>>
    /\ LET session == [id |-> NextId(training_sessions), user_id |-> user_id,
                       date |-> d, calories_kcal |-> calories_kcal]
       IN
        IF FkViolation(user_id)
        THEN ServerError("log_training", user_id, d)
        ELSE
            /\ training_sessions' = Append(training_sessions, session)
            /\ daily_log' \in TrainingUpsert(user_id, d, calories_kcal)
            /\ resp' = Response("log_training", 200, user_id, d, Some(session.id))
            /\ UNCHANGED <<users, user_settings, weight_log, food_items, meals,
                           meal_items, sleep_logs, ans_logs, daily_feel, daily_targets>>

----------------------------------------------------------------------------
(* POST /sleep, POST /ans, POST /daily-feel *)

\* Mutant of log_sleep: a day that has a SleepLog row gets no second one.
log_sleep_upsert(user_id, d) ==
    /\ nreq < MaxRequests
    /\ nreq' = nreq + 1
    /\ UNCHANGED <<fk_enforced, inflight>>
    /\ IF FkViolation(user_id)
       THEN ServerError("log_sleep", user_id, d)
       ELSE /\ sleep_logs' = IF DayRows(sleep_logs, user_id, d) # {} THEN sleep_logs
                             ELSE Append(sleep_logs,
                                    [id |-> NextId(sleep_logs), user_id |-> user_id,
                                     date |-> d])
            /\ resp' = Response("log_sleep", 200, user_id, d, NULL)
            /\ UNCHANGED <<users, user_settings, weight_log, food_items, meals,
                           meal_items, training_sessions, ans_logs, daily_feel,
                           daily_targets, daily_log>>

log_sleep(user_id, d) ==
    /\ nreq < MaxRequests
    /\ nreq' = nreq + 1
    /\ UNCHANGED <<fk_enforced, inflight>>
    /\ IF FkViolation(user_id)
       THEN ServerError("log_sleep", user_id, d)
       ELSE /\ sleep_logs' = Append(sleep_logs,
                    [id |-> NextId(sleep_logs), user_id |-> user_id, date |-> d])
            /\ resp' = Response("log_sleep", 200, user_id, d, NULL)
            /\ UNCHANGED <<users, user_settings, weight_log, food_items, meals,
                           meal_items, training_sessions, ans_logs, daily_feel,
                           daily_targets, daily_log>>

log_ans(user_id, d) ==
    /\ nreq < MaxRequests
    /\ nreq' = nreq + 1
    /\ UNCHANGED <<fk_enforced, inflight>>
    /\ IF FkViolation(user_id)
       THEN ServerError("log_ans", user_id, d)
       ELSE /\ ans_logs' = Append(ans_logs,
                    [id |-> NextId(ans_logs), user_id |-> user_id, date |-> d])
            /\ resp' = Response("log_ans", 200, user_id, d, NULL)
            /\ UNCHANGED <<users, user_settings, weight_log, food_items, meals,
                           meal_items, training_sessions, sleep_logs, daily_feel,
                           daily_targets, daily_log>>

log_daily_feel(user_id, d) ==
    /\ nreq < MaxRequests
    /\ nreq' = nreq + 1
    /\ UNCHANGED <<fk_enforced, inflight>>
    /\ IF FkViolation(user_id)
       THEN ServerError("log_daily_feel", user_id, d)
       ELSE /\ daily_feel' = Append(daily_feel,
                    [id |-> NextId(daily_feel), user_id |-> user_id, date |-> d])
            /\ resp' = Response("log_daily_feel", 200, user_id, d, NULL)
            /\ UNCHANGED <<users, user_settings, weight_log, food_items, meals,
                           meal_items, training_sessions, sleep_logs, ans_logs,
                           daily_targets, daily_log>>

----------------------------------------------------------------------------
(* POST /daily-targets *)

\* Mutant of TargetsUpsert: the lookup is skipped, a row is always inserted.
TargetsUpsertAlwaysInsert(user_id, d, readiness_state, target_calories_kcal) ==
    {Append(daily_targets,
        [id |-> NextId(daily_targets), user_id |-> user_id, date |-> d,
         readiness_state |-> readiness_state,
         target_calories_kcal |-> target_calories_kcal])}

\* Mutant of TargetsUpsert: an existing row is deleted and a fresh one inserted.
TargetsUpsertDeleteInsert(user_id, d, readiness_state, target_calories_kcal) ==
    LET mine(row) == row.user_id = user_id /\ row.date = d
        kept == SelectSeq(daily_targets, LAMBDA row : ~mine(row))
    IN {Append(kept,
           [id |-> NextId(daily_targets), user_id |-> user_id, date |-> d,
            readiness_state |-> readiness_state,
            target_calories_kcal |-> target_calories_kcal])}

\* Mutant of TargetsUpsert: on update, payload fields that are null are skipped.
TargetsUpsertMerge(user_id, d, readiness_state, target_calories_kcal) ==
    LET found == DayRows(daily_targets, user_id, d) IN
    IF found # {}
    THEN {[daily_targets EXCEPT
              ![i].readiness_state =
                  IF readiness_state = NULL THEN @ ELSE readiness_state,
              ![i].target_calories_kcal =
                  IF target_calories_kcal = NULL THEN @ ELSE target_calories_kcal]
            : i \in found}
    ELSE {Append(daily_targets,
             [id |-> NextId(daily_targets), user_id |-> user_id, date |-> d,
              readiness_state |-> readiness_state,
              target_calories_kcal |-> target_calories_kcal])}

\* The daily_targets table after the lookup-then-update-or-insert.
TargetsUpsert(user_id, d, readiness_state, target_calories_kcal) ==
    LET found == DayRows(daily_targets, user_id, d) IN
    IF found # {}
    THEN \* update: setattr(dt, k, v) for every payload key
         {[daily_targets EXCEPT
              ![i].user_id = user_id,
              ![i].date = d,
              ![i].readiness_state = readiness_state,
              ![i].target_calories_kcal = target_calories_kcal] : i \in found}
    ELSE {Append(daily_targets,
             [id |-> NextId(daily_targets), user_id |-> user_id, date |-> d,
              readiness_state |-> readiness_state,
              target_calories_kcal |-> target_calories_kcal])}

set_daily_targets(user_id, d, readiness_state, target_calories_kcal) ==
    /\ nreq < MaxRequests
    /\ nreq' = nreq + 1
    /\ UNCHANGED <<fk_enforced, inflight>>
    /\ IF FkViolation(user_id)
       THEN ServerError("set_daily_targets", user_id, d)
       ELSE /\ daily_targets' \in
                  TargetsUpsert(user_id, d, readiness_state, target_calories_kcal)
            /\ resp' = Response("set_daily_targets", 200, user_id, d, NULL)
            /\ UNCHANGED <<users, user_settings, weight_log, food_items, meals,
                           meal_items, training_sessions, sleep_logs, ans_logs,
                           daily_feel, daily_log>>

----------------------------------------------------------------------------
(* GET /summary/daily/{user_id}/{d} *)

\* Mutant of MacroJoin: the filter on Meal.date is missing.
MacroJoinAnyDate(user_id, d) ==
    {j \in (DOMAIN meals) \X (DOMAIN meal_items) \X (DOMAIN food_items) :
        /\ meal_items[j[2]].meal_id = meals[j[1]].id
        /\ food_items[j[3]].id = meal_items[j[2]].food_id
        /\ meals[j[1]].user_id = user_id}

\* Meal JOIN MealItem ON meal_id JOIN FoodItem ON food_id, filtered by user and day.
MacroJoin(user_id, d) ==
    {j \in (DOMAIN meals) \X (DOMAIN meal_items) \X (DOMAIN food_items) :
        /\ meal_items[j[2]].meal_id = meals[j[1]].id
        /\ food_items[j[3]].id = meal_items[j[2]].food_id
        /\ meals[j[1]].user_id = user_id
        /\ meals[j[1]].date = d}

RECURSIVE SetSum(_)
SetSum(f) ==
    IF DOMAIN f = {} THEN 0
    ELSE LET x == CHOOSE x \in DOMAIN f : TRUE
         IN f[x] + SetSum([y \in (DOMAIN f) \ {x} |-> f[y]])

\* SQL SUM: NULL over no rows.
SqlSum(f) == IF DOMAIN f = {} THEN NULL ELSE Some(SetSum(f))

\* SQL COALESCE(x, dflt).
Coalesce(x, dflt) == IF x = NULL THEN Some(dflt) ELSE x

\* coalesce(sum(FoodItem.<column> * MealItem.quantity_g / 100.0), 0.0), in hundredths.
MacroSum(user_id, d, column) ==
    Coalesce(SqlSum([j \in MacroJoin(user_id, d) |->
                        food_items[j[3]][column] * meal_items[j[2]].quantity_g]), 0)

\* Mutant of KcalOut: the `is not None` test is missing.
KcalOutNoNullCheck(daily) ==
    IF daily # NULL
    THEN IF daily_log[Val(daily)].calories_out_training_kcal = NULL THEN NULL
         ELSE Some(Val(daily_log[Val(daily)].calories_out_training_kcal) * Scale)
    ELSE Some(0)

\* kcal_out = daily.calories_out_training_kcal if daily and ... is not None else 0.0
KcalOut(daily) ==
    IF daily # NULL /\ daily_log[Val(daily)].calories_out_training_kcal # NULL
    THEN Some(Val(daily_log[Val(daily)].calories_out_training_kcal) * Scale)
    ELSE Some(0)

\* Mutant of Deficit: the override is tested for truth, so a stored 0 is not one.
DeficitTruthy(daily, kcal_in, kcal_out) ==
    IF daily # NULL /\ OrZero(daily_log[Val(daily)].calculated_deficit_kcal) # 0
    THEN Some(Val(daily_log[Val(daily)].calculated_deficit_kcal) * Scale)
    ELSE IF kcal_in = NULL \/ kcal_out = NULL THEN NULL
    ELSE Some(Val(kcal_in) - Val(kcal_out))

\* deficit = daily.calculated_deficit_kcal if daily and ... is not None
\*           else (kcal_in - kcal_out)
Deficit(daily, kcal_in, kcal_out) ==
    IF daily # NULL /\ daily_log[Val(daily)].calculated_deficit_kcal # NULL
    THEN Some(Val(daily_log[Val(daily)].calculated_deficit_kcal) * Scale)
    ELSE IF kcal_in = NULL \/ kcal_out = NULL THEN NULL
    ELSE Some(Val(kcal_in) - Val(kcal_out))

\* Mutant of Readiness: the day's DailyTargets row, when there is one, is read.
ReadinessFromTargets(daily) ==
    IF daily = NULL THEN NULL
    ELSE LET mine == DayRows(daily_targets, daily_log[Val(daily)].user_id,
                             daily_log[Val(daily)].date)
         IN IF mine = {} THEN daily_log[Val(daily)].readiness_state
            ELSE daily_targets[CHOOSE i \in mine : TRUE].readiness_state

\* readiness = daily.readiness_state if daily else None
Readiness(daily) == IF daily # NULL THEN daily_log[Val(daily)].readiness_state ELSE NULL

\* The rows .first() may return for (user_id, d): NULL when none matches.
DailyFirst(user_id, d) ==
    IF DayRows(daily_log, user_id, d) = {} THEN {NULL}
    ELSE {Some(i) : i \in DayRows(daily_log, user_id, d)}

\* The response of the handler when .first() returned `daily`.  The
\* DailySummary schema requires the six numbers: a missing one is a
\* validation error, not a response.
DailySummaryOf(user_id, d, daily) ==
    LET protein_g == MacroSum(user_id, d, "protein_g")
        carbs_g == MacroSum(user_id, d, "carbs_g")
        fat_g == MacroSum(user_id, d, "fat_g")
        kcal_in == MacroSum(user_id, d, "kcal")
        kcal_out == KcalOut(daily)
        deficit == Deficit(daily, kcal_in, kcal_out)
    IN IF NULL \in {protein_g, carbs_g, fat_g, kcal_in, kcal_out, deficit}
       THEN Response("daily_summary", 500, user_id, d, NULL)
       ELSE Response("daily_summary", 200, user_id, d,
                [protein_g |-> Val(protein_g),
                 carbs_g |-> Val(carbs_g),
                 fat_g |-> Val(fat_g),
                 calories_in_kcal |-> Val(kcal_in),
                 training_calories_kcal |-> Val(kcal_out),
                 deficit_kcal |-> Val(deficit),
                 readiness_state |-> Readiness(daily)])

daily_summary(user_id, d) ==
    /\ nreq < MaxRequests
    /\ nreq' = nreq + 1
    /\ \E daily \in DailyFirst(user_id, d) :
           resp' = DailySummaryOf(user_id, d, daily)
    /\ UNCHANGED <<tables, fk_enforced, inflight>>

----------------------------------------------------------------------------

Next ==
    \/ \E name \in Names : create_user(name)
    \/ \E u \in UserIds : get_user(u)
    \/ \E u \in UserIds, w \in Weights, dt \in DateTimeInputs,
          today \in Dates : log_weight(u, w, dt, today)
    \/ \E u \in UserIds, d \in Dates, items \in MealItemLists : log_meal(u, d, items)
    \/ \E u \in UserIds, d \in Dates, c \in CaloriesInputs : log_training(u, d, c)
    \/ \E u \in UserIds, d \in Dates : log_sleep(u, d)
    \/ \E u \in UserIds, d \in Dates : log_ans(u, d)
    \/ \E u \in UserIds, d \in Dates : log_daily_feel(u, d)
    \/ \E u \in UserIds, d \in Dates, r \in ReadinessInputs, t \in TargetInputs :
          set_daily_targets(u, d, r, t)
    \/ \E u \in UserIds, d \in Dates : daily_summary(u, d)

Spec == Init /\ [][Next]_vars

\* A database file that already holds a user and a DailyLog header of day 1
\* whose calculated_deficit_kcal and readiness_state were written outside
\* these routes (no route writes them; food_items is loaded the same way).
DeficitSeeds == {NULL, Some(0), Some(250)}

InitSeeded ==
    /\ users = <<[id |-> 1, name |-> "spy"]>>
    /\ user_settings = <<DefaultSettings(1, 1)>>
    /\ weight_log = <<>>
    /\ food_items = SeedFoods
    /\ meals = <<>>
    /\ meal_items = <<>>
    /\ training_sessions = <<>>
    /\ sleep_logs = <<>>
    /\ ans_logs = <<>>
    /\ daily_feel = <<>>
    /\ daily_targets = <<>>
    /\ \E deficit \in DeficitSeeds :
          daily_log = <<[id |-> 1, user_id |-> 1, date |-> 1,
                         body_weight_kg |-> NULL,
                         calories_in_kcal |-> NULL,
                         calories_out_training_kcal |-> Some(200),
                         calculated_deficit_kcal |-> deficit,
                         readiness_state |-> Some("LOW")]>>
    /\ fk_enforced \in BOOLEAN
    /\ resp = NoResponse
    /\ nreq = 0
    /\ inflight = [s \in Slots |-> Idle]

SpecSeeded == InitSeeded /\ [][Next]_vars

----------------------------------------------------------------------------
(* POST /weight and POST /training served by two worker threads.  Each      *)
(* request has its own session: it looks the day's header up, decides in    *)
(* Python what to write, and commits.  Nothing locks the row between the    *)
(* lookup and the commit, and no constraint makes (user_id, date) unique.   *)

\* Mutant of HeaderValue: the training calories replace the counter.
HeaderValueOverwrite(op, arg, daily) ==
    IF op = "log_weight" THEN arg ELSE Some(OrZero(arg))

\* The value the handler decides to store, from the row .first() returned:
\* payload.weight_kg for log_weight; for log_training payload.calories_kcal or 0,
\* added to the counter it read when a row was found.
HeaderValue(op, arg, daily) ==
    IF op = "log_weight" THEN arg
    ELSE IF daily = NULL THEN Some(OrZero(arg))
    ELSE Some(OrZero(daily_log[Val(daily)].calories_out_training_kcal) + OrZero(arg))

\* The daily_log table after the commit of a request that found `req.found`.
HeaderCommit(req) ==
    IF req.found = NULL
    THEN Append(daily_log,
            [id |-> NextId(daily_log), user_id |-> req.user_id, date |-> req.date,
             body_weight_kg |-> IF req.op = "log_weight" THEN req.value ELSE NULL,
             calories_in_kcal |-> NULL,
             calories_out_training_kcal |->
                 IF req.op = "log_training" THEN req.value ELSE NULL,
             calculated_deficit_kcal |-> NULL,
             readiness_state |-> NULL])
    ELSE IF req.op = "log_weight"
         THEN [daily_log EXCEPT ![Val(req.found)].body_weight_kg = req.value]
         ELSE [daily_log EXCEPT ![Val(req.found)].calories_out_training_kcal = req.value]

\* A worker picks a POST /weight up: db.add(db_weight), d computed.
conc_begin_weight(slot, user_id, weight_kg, date_time, today) ==
    /\ inflight[slot].pc = "idle"
    /\ nreq < MaxRequests
    /\ nreq' = nreq + 1
    /\ inflight' = [inflight EXCEPT ![slot] =
           [pc |-> "lookup", op |-> "log_weight", user_id |-> user_id,
            date |-> WeightDate(date_time, today), arg |-> Some(weight_kg),
            found |-> NULL, value |-> NULL]]
    /\ UNCHANGED <<tables, fk_enforced, resp>>

\* A worker picks a POST /training up: db.add(session).
conc_begin_training(slot, user_id, d, calories_kcal) ==
    /\ inflight[slot].pc = "idle"
    /\ nreq < MaxRequests
    /\ nreq' = nreq + 1
    /\ inflight' = [inflight EXCEPT ![slot] =
           [pc |-> "lookup", op |-> "log_training", user_id |-> user_id,
            date |-> d, arg |-> calories_kcal, found |-> NULL, value |-> NULL]]
    /\ UNCHANGED <<tables, fk_enforced, resp>>

\* The query for the day's DailyLog row and the if/else that follows it.
conc_lookup(slot) ==
    /\ inflight[slot].pc = "lookup"
    /\ \E daily \in DailyFirst(inflight[slot].user_id, inflight[slot].date) :
           inflight' = [inflight EXCEPT
               ![slot].pc = "commit",
               ![slot].found = daily,
               ![slot].value = HeaderValue(inflight[slot].op, inflight[slot].arg, daily)]
    /\ UNCHANGED <<tables, fk_enforced, resp, nreq>>

\* db.commit(): the log row and the header insert or update become durable.
conc_commit(slot) ==
    /\ inflight[slot].pc = "commit"
    /\ inflight' = [inflight EXCEPT ![slot] = Idle]
    /\ UNCHANGED <<fk_enforced, nreq>>
    /\ LET req == inflight[slot] IN
        IF FkViolation(req.user_id)
        THEN ServerError(req.op, req.user_id, req.date)
        ELSE
            /\ IF req.op = "log_weight"
               THEN /\ weight_log' = Append(weight_log,
                           [id |-> NextId(weight_log), user_id |-> req.user_id,
                            weight_kg |-> Val(req.arg), date |-> req.date])
                    /\ resp' = Response("log_weight", 200, req.user_id, req.date, NULL)
                    /\ UNCHANGED training_sessions
               ELSE /\ training_sessions' = Append(training_sessions,
                           [id |-> NextId(training_sessions), user_id |-> req.user_id,
                            date |-> req.date, calories_kcal |-> req.arg])
                    /\ resp' = Response("log_training", 200, req.user_id, req.date,
                                        Some(NextId(training_sessions)))
                    /\ UNCHANGED weight_log
            /\ daily_log' = HeaderCommit(req)
            /\ UNCHANGED <<users, user_settings, food_items, meals, meal_items,
                           sleep_logs, ans_logs, daily_feel, daily_targets>>

NextConc ==
    \/ \E slot \in Slots, u \in UserIds, w \in Weights, dt \in DateTimeInputs,
          today \in Dates : conc_begin_weight(slot, u, w, dt, today)
    \/ \E slot \in Slots, u \in UserIds, d \in Dates, c \in CaloriesInputs :
          conc_begin_training(slot, u, d, c)
    \/ \E slot \in Slots : conc_lookup(slot)
    \/ \E slot \in Slots : conc_commit(slot)

\* Two workers on an empty database.
SpecConc == Init /\ [][NextConc]_vars

\* Two workers on a database that holds a header row of (user 1, day 1).
SpecConcSeeded == InitSeeded /\ [][NextConc]_vars

----------------------------------------------------------------------------
(* Properties *)

WriteOps == {"log_weight", "log_meal", "log_training", "log_sleep", "log_ans",
             "log_daily_feel", "set_daily_targets"}

ClientError == 400..499

\* C1: under serial execution the daily_log table holds at most one row for
\* each (user_id, date) pair.
C1_OneDailyLogPerDay ==
    \A i, j \in DOMAIN daily_log :
        (daily_log[i].user_id = daily_log[j].user_id
            /\ daily_log[i].date = daily_log[j].date) => i = j

\* A day that both POST /weight and POST /training have written, with one header row.
C1_Witness ==
    \E u \in UserIds, d \in Dates :
        /\ DayRows(weight_log, u, d) # {}
        /\ DayRows(training_sessions, u, d) # {}
        /\ Cardinality(DayRows(daily_log, u, d)) = 1

\* C2 (as claimed): a POST /meals of an existing user whose items name a food
\* that does not exist answers with a client error and changes no table.
C2_Claim_NoPartialMeal ==
    [][\A u \in UserIds, d \in Dates, items \in MealItemLists :
          (/\ log_meal(u, d, items)
           /\ UserExists(u)
           /\ \E k \in DOMAIN items : ~FoodExists(items[k].food_id))
          => (resp'.status \in ClientError /\ tables' = tables)]_vars

\* C3: every user has exactly one settings row, there is no other settings
\* row, and the row holds hrv_baseline 41.0 and protein targets 160 and 190.
C3_SettingsWithDefaults ==
    /\ Len(user_settings) = Len(users)
    /\ \A i \in DOMAIN users :
         LET mine == {j \in DOMAIN user_settings :
                         user_settings[j].user_id = users[i].id}
         IN /\ Cardinality(mine) = 1
            /\ \A j \in mine :
                 /\ user_settings[j].hrv_baseline = Some(41)
                 /\ user_settings[j].protein_target_min_g = Some(160)
                 /\ user_settings[j].protein_target_max_g = Some(190)

\* POST /users has completed twice.
C3_Witness ==
    /\ resp.op = "create_user"
    /\ resp.status = 200
    /\ Len(users) = 2

\* C7 (as claimed): after a successful POST /meals of an existing user for
\* (user, date) with at least one item, a DailyLog row of that pair exists and
\* its calories_in_kcal has grown by the kcal of the meal (in hundredths: sum
\* of kcal per 100 g times grams).
RECURSIVE MealKcal(_, _)
MealKcal(items, k) ==
    IF k = 0 THEN 0
    ELSE MealKcal(items, k - 1)
         + (CHOOSE f \in {food_items[i] : i \in DOMAIN food_items} :
                f.id = items[k].food_id).kcal * items[k].quantity_g

CaloriesIn(table, user_id, d) ==
    IF DayRows(table, user_id, d) = {} THEN 0
    ELSE OrZero(table[CHOOSE i \in DayRows(table, user_id, d) : TRUE].calories_in_kcal)

C7_Claim_MealUpdatesHeader ==
    [][\A u \in UserIds, d \in Dates, items \in MealItemLists :
          (log_meal(u, d, items) /\ resp'.status = 200 /\ UserExists(u) /\ items # <<>>)
          => /\ DayRows(daily_log', u, d) # {}
             /\ CaloriesIn(daily_log', u, d) * Scale
                    = CaloriesIn(daily_log, u, d) * Scale + MealKcal(items, Len(items))]_vars

\* C8 (as claimed): a write request whose user_id references no users row is
\* answered with a client error and changes no table, and GET /users/{id} of a
\* missing id is answered 404.
C8_Claim_MissingUserRejected ==
    [][/\ (resp'.op \in WriteOps /\ nreq' = nreq + 1 /\ ~UserExists(resp'.user_id))
            => (resp'.status \in ClientError /\ tables' = tables)
       /\ (resp'.op = "get_user" /\ nreq' = nreq + 1 /\ ~UserExists(resp'.user_id))
            => resp'.status = 404]_vars

\* C9: under serial execution the daily_targets table holds at most one row
\* per (user_id, date), and a POST for a pair that has a row adds none.
C9_OneTargetsRowPerDay ==
    /\ [](\A i, j \in DOMAIN daily_targets :
            (daily_targets[i].user_id = daily_targets[j].user_id
                /\ daily_targets[i].date = daily_targets[j].date) => i = j)
    /\ [][\A u \in UserIds, d \in Dates, r \in ReadinessInputs, t \in TargetInputs :
            (set_daily_targets(u, d, r, t) /\ DayRows(daily_targets, u, d) # {})
            => /\ Len(daily_targets') = Len(daily_targets)
               /\ DayRows(daily_targets', u, d) = DayRows(daily_targets, u, d)]_vars

\* The second request served is a POST /daily-targets and the table holds one row,
\* of the posted day, with no other table written.
C9_Witness ==
    /\ nreq = 2
    /\ resp.op = "set_daily_targets"
    /\ resp.status = 200
    /\ Len(daily_targets) = 1
    /\ daily_targets[1].user_id = resp.user_id
    /\ daily_targets[1].date = resp.date
    /\ daily_targets[1].readiness_state = NULL
    /\ daily_targets[1].target_calories_kcal = Some(2000)

\* C4: a successful POST /weight appends one WeightLog row; for a (user, date)
\* with no DailyLog row it creates one holding the posted weight, and for a
\* pair that has a row it updates that row (same position, same id, no new
\* row) to the posted weight.
C4_WeightUpsertsHeader ==
    [][\A u \in UserIds, w \in Weights, dt \in DateTimeInputs, today \in Dates :
          (log_weight(u, w, dt, today) /\ resp'.status = 200)
          => LET d == IF dt = NULL THEN today ELSE Val(dt)
                 before == DayRows(daily_log, u, d)
                 after == DayRows(daily_log', u, d)
             IN /\ Len(weight_log') = Len(weight_log) + 1
                /\ SubSeq(weight_log', 1, Len(weight_log)) = weight_log
                /\ weight_log'[Len(weight_log')].user_id = u
                /\ weight_log'[Len(weight_log')].weight_kg = w
                /\ Cardinality(after) = 1
                /\ \A i \in after : daily_log'[i].body_weight_kg = Some(w)
                /\ before = {} => Len(daily_log') = Len(daily_log) + 1
                /\ before # {} =>
                     /\ after = before
                     /\ Len(daily_log') = Len(daily_log)
                     /\ \A i \in before : daily_log'[i].id = daily_log[i].id]_vars

\* Two weights posted for one day: two WeightLog rows, one header row holding the
\* later weight, which differs from the earlier one.
C4_Witness ==
    \E u \in UserIds, d \in Dates :
        /\ resp.op = "log_weight" /\ resp.user_id = u /\ resp.date = d
        /\ Cardinality(DayRows(weight_log, u, d)) = 2
        /\ Cardinality(DayRows(daily_log, u, d)) = 1
        /\ \A i \in DayRows(daily_log, u, d) :
             /\ daily_log[i].body_weight_kg = Some(weight_log[Len(weight_log)].weight_kg)
             /\ \E k \in DayRows(weight_log, u, d) :
                    Some(weight_log[k].weight_kg) # daily_log[i].body_weight_kg

\* C5: the deficit_kcal of the daily summary is the stored
\* calculated_deficit_kcal when a DailyLog row holds one, and otherwise
\* calories_in_kcal minus training_calories_kcal of the same response.
C5_DeficitOverrideOrDifference ==
    \A u \in UserIds, d \in Dates :
        \A daily \in DailyFirst(u, d) :
            LET r == DailySummaryOf(u, d, daily) IN
            /\ r.status = 200
            /\ IF daily # NULL /\ daily_log[Val(daily)].calculated_deficit_kcal # NULL
               THEN r.body.deficit_kcal
                        = Val(daily_log[Val(daily)].calculated_deficit_kcal) * Scale
               ELSE r.body.deficit_kcal
                        = r.body.calories_in_kcal - r.body.training_calories_kcal

\* A summary served for a day whose stored override differs from kcal in minus out.
C5_Witness ==
    /\ resp.op = "daily_summary"
    /\ resp.status = 200
    /\ \E i \in DayRows(daily_log, resp.user_id, resp.date) :
         /\ daily_log[i].calculated_deficit_kcal # NULL
         /\ resp.body.deficit_kcal = Val(daily_log[i].calculated_deficit_kcal) * Scale
    /\ resp.body.deficit_kcal # resp.body.calories_in_kcal - resp.body.training_calories_kcal

\* The macro of one column a day's meal items add up to, item by item: the
\* per-100g value of the item's food times its grams (hundredths of a unit).
FoodOf(food_id) ==
    CHOOSE f \in {food_items[i] : i \in DOMAIN food_items} : f.id = food_id

RECURSIVE ExpectedMacro(_, _, _, _)
ExpectedMacro(k, user_id, d, column) ==
    IF k = 0 THEN 0
    ELSE ExpectedMacro(k - 1, user_id, d, column)
         + (IF \E m \in DOMAIN meals : /\ meals[m].id = meal_items[k].meal_id
                                       /\ meals[m].user_id = user_id
                                       /\ meals[m].date = d
            THEN FoodOf(meal_items[k].food_id)[column] * meal_items[k].quantity_g
            ELSE 0)

\* C6: for every (user, date) the four totals of the daily summary are the
\* sums, over the meal items of that user's meals of that date, of the food's
\* per-100g value times quantity_g / 100.
C6_MacroTotals ==
    \A u \in UserIds, d \in Dates :
        \A daily \in DailyFirst(u, d) :
            LET r == DailySummaryOf(u, d, daily)
                n == Len(meal_items)
            IN /\ r.status = 200
               /\ r.body.protein_g = ExpectedMacro(n, u, d, "protein_g")
               /\ r.body.carbs_g = ExpectedMacro(n, u, d, "carbs_g")
               /\ r.body.fat_g = ExpectedMacro(n, u, d, "fat_g")
               /\ r.body.calories_in_kcal = ExpectedMacro(n, u, d, "kcal")

\* Two days of one user hold meal items, one of them two items of different foods.
C6_Witness ==
    \E u \in UserIds, d1, d2 \in Dates :
        /\ d1 # d2
        /\ Cardinality(MacroJoin(u, d1)) = 2
        /\ MacroJoin(u, d2) # {}
        /\ ExpectedMacro(Len(meal_items), u, d1, "protein_g") = 1300
        /\ ExpectedMacro(Len(meal_items), u, d2, "protein_g") > 0

\* C10: the daily summary answers whatever day-scoped rows are missing: without
\* Meal rows the four totals are 0, without a DailyLog row or with its
\* calories_out_training_kcal unset training_calories_kcal is 0, and without a
\* DailyLog row readiness_state is absent.
C10_SummaryDefaults ==
    \A u \in UserIds, d \in Dates :
        \A daily \in DailyFirst(u, d) :
            LET r == DailySummaryOf(u, d, daily) IN
            /\ r.status = 200
            /\ DayRows(meals, u, d) = {} =>
                 /\ r.body.protein_g = 0
                 /\ r.body.carbs_g = 0
                 /\ r.body.fat_g = 0
                 /\ r.body.calories_in_kcal = 0
            /\ (daily = NULL \/ daily_log[Val(daily)].calories_out_training_kcal = NULL)
                 => r.body.training_calories_kcal = 0
            /\ daily = NULL => r.body.readiness_state = NULL

\* A summary served for a day with no meal whose header row, created by
\* POST /weight, has no calories_out_training_kcal.
C10_Witness ==
    /\ resp.op = "daily_summary"
    /\ resp.status = 200
    /\ DayRows(meals, resp.user_id, resp.date) = {}
    /\ \E i \in DayRows(daily_log, resp.user_id, resp.date) :
         daily_log[i].calories_out_training_kcal = NULL
    /\ resp.body.training_calories_kcal = 0
    /\ resp.body.calories_in_kcal = 0

\* Sum of calories_kcal, a missing one counting 0, over the training_sessions
\* rows at the positions in S.
RECURSIVE SessionCalories(_)
SessionCalories(S) ==
    IF S = {} THEN 0
    ELSE LET i == CHOOSE i \in S : TRUE
         IN OrZero(training_sessions[i].calories_kcal) + SessionCalories(S \ {i})

\* C11: two POST /training of one (user, date) whose header row exists can
\* interleave so that one update is lost.  Every committed request stores its
\* TrainingSession row, and the counter of the header of (user 1, day 1), which
\* starts at 200, is 200 plus the calories of some of the stored sessions of that
\* day, at least one of them when there is any: never less, never anything else.
C11_LastWriteWins ==
    /\ [](LET stored == DayRows(training_sessions, 1, 1) IN
          /\ Cardinality(DayRows(daily_log, 1, 1)) = 1
          /\ \E kept \in SUBSET stored :
                /\ stored # {} => kept # {}
                /\ daily_log[1].calories_out_training_kcal
                       = Some(200 + SessionCalories(kept)))
    /\ [][\A slot \in Slots :
            (conc_commit(slot) /\ inflight[slot].op = "log_training"
                /\ resp'.status = 200)
            => /\ Len(training_sessions') = Len(training_sessions) + 1
               /\ training_sessions'[Len(training_sessions')].user_id
                      = inflight[slot].user_id
               /\ training_sessions'[Len(training_sessions')].date
                      = inflight[slot].date]_vars

\* Both requests are done, both sessions of 300 kcal are stored, and the counter
\* holds 200 + 300: one update is lost.
C11_Witness ==
    /\ \A slot \in Slots : inflight[slot].pc = "idle"
    /\ Cardinality(DayRows(training_sessions, 1, 1)) = 2
    /\ \A i \in DayRows(training_sessions, 1, 1) :
           training_sessions[i].calories_kcal = Some(300)
    /\ Len(daily_log) = 1
    /\ daily_log[1].calories_out_training_kcal = Some(500)

\* C12 (as claimed): also when the requests that upsert the header interleave,
\* daily_log holds at most one row per (user_id, date).
C12_Claim_OneRowUnderConcurrency ==
    \A u \in UserIds, d \in Dates : Cardinality(DayRows(daily_log, u, d)) <= 1

\* The row identities a table holds.
Ids(table) == {table[i].id : i \in DOMAIN table}

\* C13: no request deletes data: from one state to the next the set of row ids
\* of every table only grows or stays the same, and no table gets shorter.
C13_RowsNeverDeleted ==
    [][\A k \in DOMAIN tables :
          /\ Ids(tables[k]) \subseteq Ids(tables'[k])
          /\ Len(tables'[k]) >= Len(tables[k])]_vars

\* Two tables have grown and an upsert has run on a row that existed: two
\* sessions of one day are stored and the day's header still is the row with id 1.
C13_Witness ==
    /\ resp.op = "log_training"
    /\ Cardinality(DayRows(training_sessions, resp.user_id, resp.date)) = 2
    /\ Ids(training_sessions) = {1, 2}
    /\ Ids(daily_log) = {1}

\* The table a day-scoped log handler appends to, by position in `tables`.
TableOf(op) ==
    CASE op = "log_sleep" -> 8
      [] op = "log_ans" -> 9
      [] op = "log_daily_feel" -> 10

\* C14: a successful POST /sleep, POST /ans or POST /daily-feel appends exactly
\* one row, of the posted (user, date), to its own table, also when the table
\* holds a row of that pair, and leaves the rows already there and every other
\* table, daily_log included, unchanged.
C14_AppendOnlyLogs ==
    [][(resp'.op \in {"log_sleep", "log_ans", "log_daily_feel"}
            /\ nreq' = nreq + 1 /\ resp'.status = 200)
        => LET own == TableOf(resp'.op)
               before == tables[own]
               after == tables'[own]
           IN /\ Len(after) = Len(before) + 1
              /\ SubSeq(after, 1, Len(before)) = before
              /\ after[Len(after)].user_id = resp'.user_id
              /\ after[Len(after)].date = resp'.date
              /\ after[Len(after)].id \notin Ids(before)
              /\ \A k \in (DOMAIN tables) \ {own} : tables'[k] = tables[k]]_vars

\* Two POST /sleep of one (user, date): two SleepLog rows of that pair.
C14_Witness ==
    /\ resp.op = "log_sleep"
    /\ resp.status = 200
    /\ Cardinality(DayRows(sleep_logs, resp.user_id, resp.date)) = 2

\* C15: under serial execution, every (user, date) that has a TrainingSession
\* row has one DailyLog row whose calories_out_training_kcal is the sum of
\* calories_kcal over the sessions of that pair, a missing one counting 0,
\* and the summary's training_calories_kcal is that sum; this whether POST
\* /weight or POST /training created the row.
C15_TrainingCounterIsSum ==
    \A u \in UserIds, d \in Dates :
        LET stored == DayRows(training_sessions, u, d) IN
        stored # {} =>
            /\ Cardinality(DayRows(daily_log, u, d)) = 1
            /\ \A i \in DayRows(daily_log, u, d) :
                 daily_log[i].calories_out_training_kcal
                     = Some(SessionCalories(stored))
            /\ \A daily \in DailyFirst(u, d) :
                 /\ DailySummaryOf(u, d, daily).status = 200
                 /\ DailySummaryOf(u, d, daily).body.training_calories_kcal
                        = SessionCalories(stored) * Scale

\* POST /weight created the header of a day and a POST /training of 300 kcal
\* followed: the row holds the weight and a counter of 300.
C15_Witness ==
    /\ resp.op = "log_training"
    /\ resp.status = 200
    /\ Cardinality(DayRows(training_sessions, resp.user_id, resp.date)) = 1
    /\ DayRows(weight_log, resp.user_id, resp.date) # {}
    /\ \E i \in DayRows(daily_log, resp.user_id, resp.date) :
         /\ daily_log[i].body_weight_kg # NULL
         /\ daily_log[i].calories_out_training_kcal = Some(300)

\* C16: no request writes DailyLog.readiness_state or calculated_deficit_kcal:
\* in every state reached through the API both are null in every row, and the
\* summary of every (user, date) has no readiness_state and a deficit_kcal of
\* calories_in_kcal minus training_calories_kcal, whatever readiness_state
\* POST /daily-targets stored.
C16_ReadinessAndDeficitNeverWritten ==
    /\ \A i \in DOMAIN daily_log :
         /\ daily_log[i].readiness_state = NULL
         /\ daily_log[i].calculated_deficit_kcal = NULL
    /\ \A u \in UserIds, d \in Dates :
         \A daily \in DailyFirst(u, d) :
            LET r == DailySummaryOf(u, d, daily) IN
            /\ r.status = 200
            /\ r.body.readiness_state = NULL
            /\ r.body.deficit_kcal
                   = r.body.calories_in_kcal - r.body.training_calories_kcal

\* A day has a DailyTargets row with readiness HIGH and a DailyLog row with
\* training calories: its summary has no readiness and a deficit of -30000.
C16_Witness ==
    \E u \in UserIds, d \in Dates :
        /\ \E i \in DayRows(daily_targets, u, d) :
               daily_targets[i].readiness_state = Some("HIGH")
        /\ \E i \in DayRows(daily_log, u, d) :
               /\ daily_log[i].calories_out_training_kcal = Some(300)
               /\ DailySummaryOf(u, d, Some(i)).body.readiness_state = NULL
               /\ DailySummaryOf(u, d, Some(i)).body.deficit_kcal = -30000

\* C17: a POST /meals answered 400 for an unknown food_id leaves the daily
\* summary of every (user, date), the request's own included, as it was: the
\* same rows can be returned by the lookup and each gives the same response.
C17_FailedMealKeepsSummaries ==
    [][\A u \in UserIds, d \in Dates, items \in MealItemLists :
          (log_meal(u, d, items) /\ resp'.status = 400)
          => \A u2 \in UserIds, d2 \in Dates :
                /\ DailyFirst(u2, d2)' = DailyFirst(u2, d2)
                /\ MacroJoin(u2, d2)' = MacroJoin(u2, d2)
                /\ \A daily \in DailyFirst(u2, d2) :
                      DailySummaryOf(u2, d2, daily)' = DailySummaryOf(u2, d2, daily)]_vars

\* A POST /meals was answered 400 for a day that holds an earlier meal with
\* items: the day has two Meal rows and its summary still counts the first only.
C17_Witness ==
    /\ resp.op = "log_meal"
    /\ resp.status = 400
    /\ Cardinality(DayRows(meals, resp.user_id, resp.date)) = 2
    /\ MacroJoin(resp.user_id, resp.date) # {}
    /\ \A j \in MacroJoin(resp.user_id, resp.date) : j[1] = 1

\* C18: a successful POST /daily-targets leaves the row of its (user, date)
\* holding exactly the payload: a field the payload omits is null afterwards
\* even if it was set before; and a request whose payload the stored row
\* already equals changes no table.
C18_TargetsFullReplace ==
    [][\A u \in UserIds, d \in Dates, r \in ReadinessInputs, t \in TargetInputs :
          (set_daily_targets(u, d, r, t) /\ resp'.status = 200)
          => /\ DayRows(daily_targets', u, d) # {}
             /\ \A i \in DayRows(daily_targets', u, d) :
                  /\ daily_targets'[i].readiness_state = r
                  /\ daily_targets'[i].target_calories_kcal = t
             /\ (/\ DayRows(daily_targets, u, d) # {}
                 /\ \A i \in DayRows(daily_targets, u, d) :
                      /\ daily_targets[i].readiness_state = r
                      /\ daily_targets[i].target_calories_kcal = t)
                => tables' = tables]_vars

\* With an empty users table and after two requests, the last a successful POST
\* /daily-targets, the table holds one row, of the posted day, with both fields null.
C18_Witness ==
    /\ nreq = 2
    /\ Len(users) = 0
    /\ resp.op = "set_daily_targets"
    /\ resp.status = 200
    /\ Len(daily_targets) = 1
    /\ DayRows(daily_targets, resp.user_id, resp.date) = {1}
    /\ daily_targets[1].readiness_state = NULL
    /\ daily_targets[1].target_calories_kcal = NULL

\* C19: on a (user, date) that has a DailyLog row, a successful POST /weight
\* changes body_weight_kg of that row and nothing else in daily_log, and a
\* successful POST /training changes calories_out_training_kcal and nothing else.
C19_HandlersKeepEachOthersFields ==
    [][(resp'.op \in {"log_weight", "log_training"}
            /\ nreq' = nreq + 1 /\ resp'.status = 200
            /\ DayRows(daily_log, resp'.user_id, resp'.date) # {})
        => /\ Len(daily_log') = Len(daily_log)
           /\ \A i \in DOMAIN daily_log :
                IF resp'.op = "log_weight"
                THEN daily_log'[i] = [daily_log[i] EXCEPT
                         !.body_weight_kg = daily_log'[i].body_weight_kg]
                ELSE daily_log'[i] = [daily_log[i] EXCEPT
                         !.calories_out_training_kcal =
                             daily_log'[i].calories_out_training_kcal]]_vars

\* The header that held 200 training kcal, readiness LOW and a deficit of 250
\* has taken a weight and a session of 300 kcal and still holds LOW and 250.
C19_Witness ==
    /\ Len(daily_log) = 1
    /\ daily_log[1].body_weight_kg # NULL
    /\ daily_log[1].calories_out_training_kcal = Some(500)
    /\ daily_log[1].readiness_state = Some("LOW")
    /\ daily_log[1].calculated_deficit_kcal = Some(250)

\* C20: a write request addressed to one (user, date) leaves, for every other
\* pair, the positions and contents of its DailyLog rows and every response
\* the summary can give unchanged; and GET /summary/daily changes no table.
C20_DayAndUserIsolation ==
    [][/\ (resp'.op \in WriteOps /\ nreq' = nreq + 1)
          => \A u \in UserIds, d \in Dates :
                (<<u, d>> # <<resp'.user_id, resp'.date>>)
                => /\ DayRows(daily_log', u, d) = DayRows(daily_log, u, d)
                   /\ \A i \in DayRows(daily_log, u, d) : daily_log'[i] = daily_log[i]
                   /\ \A daily \in DailyFirst(u, d) :
                         DailySummaryOf(u, d, daily)' = DailySummaryOf(u, d, daily)
       /\ (resp'.op = "daily_summary" /\ nreq' = nreq + 1) => tables' = tables]_vars

\* A POST /training has been served for one pair while another pair, of the
\* same user or the same day, holds a header with its own training counter.
C20_Witness ==
    /\ resp.op = "log_training"
    /\ resp.status = 200
    /\ \E i \in DayRows(daily_log, resp.user_id, resp.date) :
           daily_log[i].calories_out_training_kcal = Some(300)
    /\ \E u \in UserIds, d \in Dates :
        /\ <<u, d>> # <<resp.user_id, resp.date>>
        /\ u = resp.user_id \/ d = resp.date
        /\ \E i \in DayRows(daily_log, u, d) :
               daily_log[i].calories_out_training_kcal = Some(0)

====
